---- MODULE Spec2Model ----
(***************************************************************************)
(* A model of apps/buzz/generate_icons.py: a script that makes sure the    *)
(* directory `public` exists and then, for each size of [192, 512], makes  *)
(* a square canvas, resolves a font (arial.ttf, else the default font),    *)
(* measures and draws the letter "B", saves the canvas as                  *)
(* public/icon-{size}x{size}.png and prints a progress line.               *)
(*                                                                         *)
(* Three specifications share the variables:                               *)
(*   Spec        NumProcs processes run the script against one working     *)
(*               directory, every interleaving of their statements;        *)
(*   SpecSeq     the same processes, one run at a time;                    *)
(*   SpecLayout  lines 26-30 alone (measure, position, draw) over bounded  *)
(*               canvas sizes and bounding boxes.                          *)
(***************************************************************************)
EXTENDS Integers, Sequences, FiniteSets, TLC

\* ------------------------------------------------------------------ bounds

\* Number of independent processes that run the script.
NumProcs == 2
\* SpecLayout: canvas sizes 1..MaxSize are tried beside 192 and 512.
MaxSize == 4
\* SpecLayout: the bounding box's left and top offsets range over
\* -MaxOffset..MaxOffset.
MaxOffset == 1
\* SpecLayout: glyph extents 0..MaxGlyph are tried beside size-1, size, size+1.
MaxGlyph == 3

Procs == 1..NumProcs

\* --------------------------------------------------------------- constants

\* line 8: sizes = [192, 512]
sizes == <<192, 512>>

\* line 12: Image.new('RGB', (size, size), color='#3b82f6')
NoFont == [name |-> "", size |-> 0]
NoCanvas ==
    [mode |-> "", width |-> 0, height |-> 0, color |-> "",
     text |-> "", fill |-> "", font |-> NoFont]
ImageNew(size) ==
    [mode |-> "RGB", width |-> size, height |-> size, color |-> "#3b82f6",
     text |-> "", fill |-> "", font |-> NoFont]

\* line 18: font_size = int(size * 0.4)
FontSize(size) == (size * 4) \div 10
\* line 19: ImageFont.truetype("arial.ttf", font_size)
TrueTypeFont(size) == [name |-> "arial.ttf", size |-> FontSize(size)]
\* line 22: ImageFont.load_default()
DefaultFont == [name |-> "default", size |-> 0]

\* line 25, 30: draw.text(position, "B", fill='white', font=font)
DrawnCanvas(img, font) ==
    [img EXCEPT !.text = "B", !.fill = "white", !.font = font]

\* IconPath without the size in the name: both sizes would share one file.
IconPathShared(size) == "public/icon.png"
\* line 33: f'public/icon-{size}x{size}.png'
IconPath(size) ==
    "public/icon-" \o ToString(size) \o "x" \o ToString(size) \o ".png"
\* line 34: f'Created icon-{size}x{size}.png'
ProgressLine(size) ==
    "Created icon-" \o ToString(size) \o "x" \o ToString(size) \o ".png"
\* line 36
CompletionLine == "All icons generated!"

\* What a file holds: a PNG encoded from a canvas, content that was there
\* before any run of the model (Stale), or the remains of a failed write.
Encode(img) == [format |-> "PNG", image |-> img]
Stale == [format |-> "stale", image |-> NoCanvas]
Partial == [format |-> "partial", image |-> NoCanvas]

NoErr == [at |-> "", type |-> ""]
Raised(at, type) == [at |-> at, type |-> type]

\* ------------------------------------------------------------------- state

VARIABLES
    public,     \* the path `public`: "absent", "dir" or "file"
    files,      \* the files under public/: path -> content
    pc,         \* each process's next statement
    idx,        \* each process's position in `sizes` (1-based)
    img,        \* each process's variable img (the canvas)
    font,       \* each process's variable font
    out,        \* each process's standard output, a sequence of lines
    writes,     \* each process's calls of img.save, in order
    err,        \* the exception that ended each process, or NoErr
    lpc,        \* SpecLayout: the next statement of lines 26-30
    lsize,      \* SpecLayout: size
    bbox,       \* SpecLayout: bbox = (left, top, right, bottom)
    position,   \* SpecLayout: position = (x, y)
    inkbox      \* SpecLayout: where draw.text puts the glyph's box

procvars == <<public, files, pc, idx, img, font, out, writes, err>>
layoutvars == <<lpc, lsize, bbox, position, inkbox>>
vars == <<public, files, pc, idx, img, font, out, writes, err,
          lpc, lsize, bbox, position, inkbox>>

Size(p) == sizes[idx[p]]

\* ------------------------------------------------------------- file system

\* PathExists with the test lost: os.makedirs would be called on every run.
PathExistsNever(state) == FALSE
\* line 5: os.path.exists('public'): true of a directory and of a plain file
PathExists(state) == state # "absent"

\* Write that leaves an existing file as it is (exclusive creation).
WriteKeepExisting(fs, path, data) ==
    [q \in DOMAIN fs \cup {path} |->
        IF q \in DOMAIN fs THEN fs[q] ELSE data]
\* open(path, "w+b") and a complete write: the file holds `data` afterwards,
\* whether or not it existed
Write(fs, path, data) ==
    [q \in DOMAIN fs \cup {path} |-> IF q = path THEN data ELSE fs[q]]

IconPaths == {IconPath(sizes[i]) : i \in 1..Len(sizes)}

\* ------------------------------------------------------------------- Init

InitLayoutIdle ==
    /\ lpc = "off"
    /\ lsize = 0
    /\ bbox = <<0, 0, 0, 0>>
    /\ position = <<0, 0>>
    /\ inkbox = <<0, 0, 0, 0>>

\* Before any run: `public` is absent, a directory (holding any subset of the
\* two icon files, left there earlier) or a plain file.
Init ==
    /\ public \in {"absent", "dir", "file"}
    /\ \E S \in SUBSET IconPaths :
          /\ (public # "dir" => S = {})
          /\ files = [q \in S |-> Stale]
    /\ pc = [p \in Procs |-> "check"]
    /\ idx = [p \in Procs |-> 1]
    /\ img = [p \in Procs |-> NoCanvas]
    /\ font = [p \in Procs |-> NoFont]
    /\ out = [p \in Procs |-> <<>>]
    /\ writes = [p \in Procs |-> <<>>]
    /\ err = [p \in Procs |-> NoErr]
    /\ InitLayoutIdle

\* --------------------------------------------------------------- the script

Fail(p, at, type) ==
    /\ pc' = [pc EXCEPT ![p] = "failed"]
    /\ err' = [err EXCEPT ![p] = Raised(at, type)]

\* line 5: if not os.path.exists('public'):
CheckExists(p) ==
    /\ pc[p] = "check"
    /\ pc' = [pc EXCEPT ![p] = IF PathExists(public) THEN "new" ELSE "makedirs"]
    /\ UNCHANGED <<public, files, idx, img, font, out, writes, err>>
    /\ UNCHANGED layoutvars

\* MakeDirs with the exception swallowed: the run would go on to the loop.
MakeDirsIgnoresFailure(p) ==
    /\ pc[p] = "makedirs"
    /\ \E ok \in BOOLEAN :
          /\ public' = IF public = "absent" /\ ok THEN "dir" ELSE public
          /\ err' = [err EXCEPT ![p] =
                        IF public = "absent" /\ ok THEN NoErr
                        ELSE Raised("makedirs", "OSError")]
    /\ pc' = [pc EXCEPT ![p] = "new"]
    /\ UNCHANGED <<files, idx, img, font, out, writes>>
    /\ UNCHANGED layoutvars
\* line 6: os.makedirs('public'): creates the directory, or raises
\* FileExistsError when the path exists by now, or raises PermissionError
\* (or another OSError) when the directory cannot be created
MakeDirs(p) ==
    /\ pc[p] = "makedirs"
    /\ IF public # "absent"
         THEN /\ Fail(p, "makedirs", "FileExistsError")
              /\ UNCHANGED public
         ELSE \E ok \in BOOLEAN :
                IF ok
                  THEN /\ public' = "dir"
                       /\ pc' = [pc EXCEPT ![p] = "new"]
                       /\ UNCHANGED err
                  ELSE /\ Fail(p, "makedirs", "PermissionError")
                       /\ UNCHANGED public
    /\ UNCHANGED <<files, idx, img, font, out, writes>>
    /\ UNCHANGED layoutvars

\* lines 12-13: img = Image.new(...); draw = ImageDraw.Draw(img). The
\* allocation may raise MemoryError.
NewImage(p) ==
    /\ pc[p] = "new"
    /\ \E ok \in BOOLEAN :
          IF ok
            THEN /\ img' = [img EXCEPT ![p] = ImageNew(Size(p))]
                 /\ pc' = [pc EXCEPT ![p] = "font"]
                 /\ UNCHANGED err
            ELSE /\ Fail(p, "new", "MemoryError")
                 /\ UNCHANGED img
    /\ UNCHANGED <<public, files, idx, font, out, writes>>
    /\ UNCHANGED layoutvars

\* ResolveFont without the except clause: a failed load would end the run.
ResolveFontPropagates(p) ==
    /\ pc[p] = "font"
    /\ \E loaded \in BOOLEAN :
          IF loaded
            THEN /\ font' = [font EXCEPT ![p] = TrueTypeFont(Size(p))]
                 /\ pc' = [pc EXCEPT ![p] = "text"]
                 /\ UNCHANGED err
            ELSE /\ Fail(p, "font", "OSError")
                 /\ UNCHANGED font
    /\ UNCHANGED <<public, files, idx, img, out, writes>>
    /\ UNCHANGED layoutvars
\* lines 16-22: try: font = ImageFont.truetype("arial.ttf", font_size)
\* except: font = ImageFont.load_default(). The bare except catches whatever
\* the try block raises; load_default returns the font built into Pillow.
ResolveFont(p) ==
    /\ pc[p] = "font"
    /\ \E loaded \in BOOLEAN :
          font' = [font EXCEPT ![p] =
                      IF loaded THEN TrueTypeFont(Size(p)) ELSE DefaultFont]
    /\ pc' = [pc EXCEPT ![p] = "text"]
    /\ UNCHANGED <<public, files, idx, img, out, writes, err>>
    /\ UNCHANGED layoutvars

\* lines 25-30: measure "B", compute the position, draw.text(position, ...).
\* The canvas records what was drawn and with which font; where it lands is
\* the subject of SpecLayout.
DrawText(p) ==
    /\ pc[p] = "text"
    /\ img' = [img EXCEPT ![p] = DrawnCanvas(img[p], font[p])]
    /\ pc' = [pc EXCEPT ![p] = "save"]
    /\ UNCHANGED <<public, files, idx, font, out, writes, err>>
    /\ UNCHANGED layoutvars

WriteRecord(path, data, existed, ok) ==
    [path |-> path, data |-> data, existed |-> existed, ok |-> ok]

\* Save with the exception swallowed: the progress line would follow a
\* write that did not happen.
SaveIgnoresFailure(p) ==
    /\ pc[p] = "save"
    /\ \E ok \in BOOLEAN :
        LET path == IconPath(Size(p))
            data == Encode(img[p])
            done == ok /\ public = "dir"
        IN  /\ files' = IF done THEN Write(files, path, data) ELSE files
            /\ writes' = [writes EXCEPT ![p] =
                  Append(@, WriteRecord(path, data, path \in DOMAIN files, done))]
    /\ pc' = [pc EXCEPT ![p] = "print"]
    /\ UNCHANGED <<public, idx, img, font, out, err>>
    /\ UNCHANGED layoutvars
\* line 33: img.save(f'public/icon-{size}x{size}.png'). Opening the file
\* fails when `public` is no directory; otherwise the write completes, or the
\* open fails (the file system is left as it was), or the write fails after
\* the file was opened and truncated (a partial file is left).
Save(p) ==
    /\ pc[p] = "save"
    /\ LET path == IconPath(Size(p))
           data == Encode(img[p])
           existed == path \in DOMAIN files
       IN  IF public # "dir"
             THEN /\ Fail(p, "save",
                          IF public = "file" THEN "NotADirectoryError"
                          ELSE "FileNotFoundError")
                  /\ writes' = [writes EXCEPT ![p] =
                        Append(@, WriteRecord(path, data, existed, FALSE))]
                  /\ UNCHANGED files
             ELSE \E outcome \in {"written", "open failed", "write failed"} :
                    /\ writes' = [writes EXCEPT ![p] =
                          Append(@, WriteRecord(path, data, existed,
                                                outcome = "written"))]
                    /\ IF outcome = "written"
                         THEN /\ files' = Write(files, path, data)
                              /\ pc' = [pc EXCEPT ![p] = "print"]
                              /\ UNCHANGED err
                         ELSE /\ files' = IF outcome = "write failed"
                                            THEN Write(files, path, Partial)
                                            ELSE files
                              /\ Fail(p, "save", "OSError")
    /\ UNCHANGED <<public, idx, img, font, out>>
    /\ UNCHANGED layoutvars

\* line 34: print(f'Created icon-{size}x{size}.png'), then line 10: the loop
\* takes the next size, or ends
PrintProgress(p) ==
    /\ pc[p] = "print"
    /\ out' = [out EXCEPT ![p] = Append(@, ProgressLine(Size(p)))]
    /\ IF idx[p] < Len(sizes)
         THEN /\ idx' = [idx EXCEPT ![p] = @ + 1]
              /\ pc' = [pc EXCEPT ![p] = "new"]
         ELSE /\ pc' = [pc EXCEPT ![p] = "final"]
              /\ UNCHANGED idx
    /\ UNCHANGED <<public, files, img, font, writes, err>>
    /\ UNCHANGED layoutvars

\* line 36: print('All icons generated!')
PrintCompletion(p) ==
    /\ pc[p] = "final"
    /\ out' = [out EXCEPT ![p] = Append(@, CompletionLine)]
    /\ pc' = [pc EXCEPT ![p] = "done"]
    /\ UNCHANGED <<public, files, idx, img, font, writes, err>>
    /\ UNCHANGED layoutvars

\* One statement of process p.
Step(p) ==
    \/ CheckExists(p)
    \/ MakeDirs(p)
    \/ NewImage(p)
    \/ ResolveFont(p)
    \/ DrawText(p)
    \/ Save(p)
    \/ PrintProgress(p)
    \/ PrintCompletion(p)

\* Independent processes: any process takes the next step.
Next == \E p \in Procs : Step(p)

Spec == Init /\ [][Next]_vars

\* p has begun and has not ended
Running(p) == pc[p] \notin {"check", "done", "failed"}

\* Runs in succession: p steps only while no other run is under way.
Turn(p) == \A q \in Procs \ {p} : ~Running(q)

NextSeq ==
    \E p \in Procs :
        \/ Turn(p) /\ CheckExists(p)
        \/ Turn(p) /\ MakeDirs(p)
        \/ Turn(p) /\ NewImage(p)
        \/ Turn(p) /\ ResolveFont(p)
        \/ Turn(p) /\ DrawText(p)
        \/ Turn(p) /\ Save(p)
        \/ Turn(p) /\ PrintProgress(p)
        \/ Turn(p) /\ PrintCompletion(p)

SpecSeq == Init /\ [][NextSeq]_vars

\* ------------------------------------------------- lines 26-30 on their own

Abs(n) == IF n < 0 THEN -n ELSE n

LayoutSizes == {sizes[i] : i \in 1..Len(sizes)} \cup (1..MaxSize)
Offsets == (-MaxOffset)..MaxOffset
Extents(size) == (0..MaxGlyph) \cup {e \in {size - 1, size, size + 1} : e >= 0}

\* What draw.textbbox((0, 0), "B", font=font) may report: the font decides
\* it, so every box of the bounded family is possible.
BBoxes(size) ==
    {<<l, t, l + w, t + h>> :
        l \in Offsets, t \in Offsets, w \in Extents(size), h \in Extents(size)}

\* line 27: text_width = bbox[2] - bbox[0]
TextWidth(bb) == bb[3] - bb[1]
\* line 28: text_height = bbox[3] - bbox[1]
TextHeight(bb) == bb[4] - bb[2]

\* Position with the parentheses lost: size - text_width // 2.
PositionMisparenthesised(size, bb) ==
    <<size - TextWidth(bb) \div 2, size - TextHeight(bb) \div 2>>
\* line 29: ((size - text_width) // 2, (size - text_height) // 2)
Position(size, bb) ==
    <<(size - TextWidth(bb)) \div 2, (size - TextHeight(bb)) \div 2>>

\* line 30: draw.text(position, text, ...) with the default anchor: the
\* glyph's box lies at the offsets textbbox reported, from `position`
InkBox(pos, bb) ==
    <<pos[1] + bb[1], pos[2] + bb[2], pos[1] + bb[3], pos[2] + bb[4]>>

InitLayout ==
    /\ public = "dir"
    /\ files = [q \in {} |-> Stale]
    /\ pc = [p \in Procs |-> "done"]
    /\ idx = [p \in Procs |-> 1]
    /\ img = [p \in Procs |-> NoCanvas]
    /\ font = [p \in Procs |-> NoFont]
    /\ out = [p \in Procs |-> <<>>]
    /\ writes = [p \in Procs |-> <<>>]
    /\ err = [p \in Procs |-> NoErr]
    /\ lpc = "bbox"
    /\ lsize \in LayoutSizes
    /\ bbox = <<0, 0, 0, 0>>
    /\ position = <<0, 0>>
    /\ inkbox = <<0, 0, 0, 0>>

\* line 26: bbox = draw.textbbox((0, 0), text, font=font)
MeasureText ==
    /\ lpc = "bbox"
    /\ bbox' \in BBoxes(lsize)
    /\ lpc' = "position"
    /\ UNCHANGED <<lsize, position, inkbox>>
    /\ UNCHANGED procvars

\* lines 27-29
ComputePosition ==
    /\ lpc = "position"
    /\ position' = Position(lsize, bbox)
    /\ lpc' = "draw"
    /\ UNCHANGED <<lsize, bbox, inkbox>>
    /\ UNCHANGED procvars

\* line 30
DrawGlyph ==
    /\ lpc = "draw"
    /\ inkbox' = InkBox(position, bbox)
    /\ lpc' = "drawn"
    /\ UNCHANGED <<lsize, bbox, position>>
    /\ UNCHANGED procvars

NextLayout == MeasureText \/ ComputePosition \/ DrawGlyph

SpecLayout == InitLayout /\ [][NextLayout]_vars

\* ------------------------------------------------------------------ claims

Path192 == "public/icon-192x192.png"
Path512 == "public/icon-512x512.png"
Line192 == "Created icon-192x192.png"
Line512 == "Created icon-512x512.png"
ExpectedOutput == <<Line192, Line512, CompletionLine>>

IsPrefix(s, t) == Len(s) <= Len(t) /\ \A i \in 1..Len(s) : s[i] = t[i]
OkWrites(p) == {i \in 1..Len(writes[p]) : writes[p][i].ok}
FailedAt(p, at) == pc[p] = "failed" /\ err[p].at = at
\* no other process has begun
Alone(p) == \A q \in Procs \ {p} : pc[q] = "check"
\* what a run may leave in the file of `size`: the drawn canvas, with either font
Renderings(size) ==
    {Encode(DrawnCanvas(ImageNew(size), f)) : f \in {TrueTypeFont(size), DefaultFont}}

\* C1: processes that run concurrently from a state where `public` is absent
\* all get past the directory step: none is ended by os.makedirs finding the
\* directory already made by another.
C1_NoProcessAbortsAtDirectory ==
    \A p \in Procs :
        ~(FailedAt(p, "makedirs") /\ err[p].type = "FileExistsError")

\* C2: font resolution never ends a run: after it the font is arial.ttf at
\* the computed size or the default font, a run fails only at makedirs,
\* Image.new or save, and a run that fell back to the default font and
\* completed has saved both icons and printed all three lines.
C2_FontFallbackTotal ==
    \A p \in Procs :
        /\ err[p].at # "font"
        /\ (pc[p] = "failed" => err[p].at \in {"makedirs", "new", "save"})
        /\ (pc[p] \in {"text", "save", "print"} =>
               font[p] \in {TrueTypeFont(Size(p)), DefaultFont})
        /\ (pc[p] = "text" => img[p] = ImageNew(Size(p)))
        /\ (pc[p] = "done" =>
               /\ out[p] = ExpectedOutput
               /\ Len(writes[p]) = 2
               /\ \A i \in 1..2 :
                     /\ writes[p][i].ok
                     /\ writes[p][i].path = IconPath(sizes[i])
                     /\ writes[p][i].data \in Renderings(sizes[i]))

\* C2's case: a completed run whose first size fell back to the default font
\* and whose second size used arial.ttf at 204 points.
C2_Witness ==
    \E p \in Procs :
        /\ pc[p] = "done"
        /\ writes[p][1].data.image.font = DefaultFont
        /\ writes[p][2].data.image.font = [name |-> "arial.ttf", size |-> 204]

\* C4: a completed run has written exactly two files, each once:
\* public/icon-192x192.png from a 192x192 canvas, then
\* public/icon-512x512.png from a 512x512 canvas.
C4_OutputCardinality ==
    \A p \in Procs :
        pc[p] = "done" =>
            /\ Len(writes[p]) = 2
            /\ writes[p][1].path = Path192
            /\ writes[p][2].path = Path512
            /\ writes[p][1].ok /\ writes[p][2].ok
            /\ writes[p][1].data.format = "PNG"
            /\ writes[p][2].data.format = "PNG"
            /\ writes[p][1].data.image.width = 192
            /\ writes[p][1].data.image.height = 192
            /\ writes[p][2].data.image.width = 512
            /\ writes[p][2].data.image.height = 512

\* C4's case: a run completed where `public` did not exist before (neither
\* file existed when it was written).
C4_Witness ==
    \E p \in Procs :
        /\ pc[p] = "done"
        /\ Len(writes[p]) = 2
        /\ ~writes[p][1].existed
        /\ ~writes[p][2].existed

\* C5: the output is always a prefix of the three lines in order; a progress
\* line is there only if this run wrote that size's file completely; the
\* completion line only after both files and both progress lines; a completed
\* run has printed exactly the three lines; a failed run has printed one
\* progress line per completed write and no completion line.
C5_OutputOrdering ==
    \A p \in Procs :
        /\ IsPrefix(out[p], ExpectedOutput)
        /\ \A i \in 1..Len(sizes) :
              (\E k \in 1..Len(out[p]) : out[p][k] = ProgressLine(sizes[i])) =>
                  \E j \in OkWrites(p) : writes[p][j].path = IconPath(sizes[i])
        /\ ((\E k \in 1..Len(out[p]) : out[p][k] = CompletionLine) =>
               /\ Len(out[p]) = 3
               /\ Cardinality(OkWrites(p)) = 2)
        /\ (pc[p] = "done" => out[p] = ExpectedOutput)
        /\ (pc[p] = "failed" =>
               /\ Len(out[p]) = Cardinality(OkWrites(p))
               /\ Len(out[p]) < 3)

\* C5's case: the write for 512 failed after the line for 192 was printed.
C5_Witness ==
    \E p \in Procs :
        /\ FailedAt(p, "save")
        /\ idx[p] = 2
        /\ out[p] = <<Line192>>

\* C6: a failed directory creation leaves no canvas, no write and no line; a
\* failed write for 192 leaves 512 untouched by this run (one attempt in all,
\* nothing printed); a failed write for 512 leaves the 192 file as this run
\* wrote it (while no other process has begun); no path is written twice.
C6_FatalFailuresHalt ==
    \A p \in Procs :
        /\ (err[p].at = "makedirs" =>
               /\ pc[p] = "failed"
               /\ img[p] = NoCanvas
               /\ writes[p] = <<>>
               /\ out[p] = <<>>)
        /\ (err[p].at = "save" => pc[p] = "failed")
        /\ (FailedAt(p, "save") /\ idx[p] = 1 =>
               /\ Len(writes[p]) = 1
               /\ writes[p][1].path = Path192
               /\ ~writes[p][1].ok
               /\ out[p] = <<>>)
        /\ (FailedAt(p, "save") /\ idx[p] = 2 =>
               /\ Len(writes[p]) = 2
               /\ writes[p][1].path = Path192 /\ writes[p][1].ok
               /\ writes[p][2].path = Path512 /\ ~writes[p][2].ok
               /\ (Alone(p) =>
                      /\ Path192 \in DOMAIN files
                      /\ files[Path192] = writes[p][1].data))
        /\ \A i, j \in 1..Len(writes[p]) :
              writes[p][i].path = writes[p][j].path => i = j

\* C6's case: the write for 512 failed with the 192 file written before it.
C6_Witness ==
    \E p \in Procs :
        /\ FailedAt(p, "save")
        /\ idx[p] = 2
        /\ Alone(p)
        /\ Path192 \in DOMAIN files
        /\ Path512 \in DOMAIN files
        /\ files[Path512] = Partial

\* C7 (SpecSeq): once a run has completed, a later run never reaches
\* os.makedirs, and no run in succession is ended by FileExistsError.
C7_SecondRunSkipsMakedirs ==
    \A q \in Procs :
        /\ (pc[q] = "makedirs" => \A p \in Procs : pc[p] # "done")
        /\ err[q].type # "FileExistsError"

\* C7's case: two runs in succession have both completed.
C7_Witness ==
    /\ \A p \in Procs : pc[p] \in {"check", "done"}
    /\ Cardinality({p \in Procs : pc[p] = "done"}) = 2

\* C8: after a run that completed (no other process having begun), each of
\* the two files holds what that run saved for its size, a rendering of that
\* size, whatever was there before.
C8_Overwrite ==
    \A p \in Procs :
        pc[p] = "done" /\ Alone(p) =>
            \A i \in 1..Len(sizes) :
                /\ IconPath(sizes[i]) \in DOMAIN files
                /\ files[IconPath(sizes[i])] = writes[p][i].data
                /\ files[IconPath(sizes[i])] \in Renderings(sizes[i])
                /\ files[IconPath(sizes[i])] # Stale

\* C8's case: both files existed before the run that completed.
C8_Witness ==
    \E p \in Procs :
        /\ pc[p] = "done"
        /\ Alone(p)
        /\ writes[p][1].existed
        /\ writes[p][2].existed

\* C10: whenever a process is about to write the first icon, `public` is a
\* directory.
C10_PublicIsDirectoryAtFirstWrite ==
    \A p \in Procs :
        pc[p] = "save" /\ idx[p] = 1 => public = "dir"

\* C3 (SpecLayout): for a glyph no wider and no taller than the canvas, the
\* position is non-negative and 2*origin + extent is within 2 of size on
\* each axis.
C3_Centering ==
    lpc \in {"draw", "drawn"}
        /\ TextWidth(bbox) <= lsize /\ TextHeight(bbox) <= lsize =>
            /\ position[1] >= 0
            /\ position[2] >= 0
            /\ Abs(2 * position[1] + TextWidth(bbox) - lsize) <= 2
            /\ Abs(2 * position[2] + TextHeight(bbox) - lsize) <= 2

\* C3's case: a 511x512 glyph on the 512 canvas, positioned at (0, 0).
C3_Witness ==
    /\ lpc = "drawn"
    /\ lsize = 512
    /\ TextWidth(bbox) = 511
    /\ TextHeight(bbox) = 512
    /\ position = <<0, 0>>

\* C9 (SpecLayout): the drawn glyph's box has left and right margins that
\* differ by at most 1, and top and bottom margins that differ by at most 1.
C9_InkBoxCentred ==
    lpc = "drawn" =>
        /\ Abs(inkbox[1] - (lsize - inkbox[3])) <= 1
        /\ Abs(inkbox[2] - (lsize - inkbox[4])) <= 1

====
